---- MODULE Spec2Model ----
(***************************************************************************)
(* Model of vs/workbench/contrib/searchEditor/browser/searchEditorInput.ts *)
(* (SearchEditorInput and the module-level registry behind                 *)
(* getOrMakeSearchEditorInput).  Every promise continuation of the source  *)
(* is one step; the host services (backup, text files, file dialog) answer *)
(* nondeterministically.                                                   *)
(***************************************************************************)
EXTENDS Integers, Sequences, FiniteSets, Bags, TLC

\* ---------------------------------------------------------------- bounds
MaxInputs == 2      \* SearchEditorInput instances ever constructed
MaxOps == 2         \* setDirty / save / saveAs calls and searches ever started

\* ---------------------------------------------------------------- values
SearchEditorScheme == "search-editor"
FileScheme == "file"

UntitledUris == {[scheme |-> SearchEditorScheme, id |-> 1]}
FileUris == {[scheme |-> FileScheme, id |-> 1]}
Uris == UntitledUris \cup FileUris
NoUri == [scheme |-> "undefined", id |-> 0]

\* URI.toString(): the key of the registry
toString(u) == <<u.scheme, u.id>>
Keys == {toString(u) : u \in Uris}

\* resources.isEqual(a, b)
isEqual(a, b) == a.scheme = b.scheme /\ a.id = b.id

NoConfig == "undefined"
EmptyConfig == "{}"
Configs == {"c1"}          \* configurations a caller passes
StoredConfigs == {"c2"}    \* configurations parsed from a backup or a file
NoText == "undefined"
EmptyText == ""
Texts == {"t1"}

\* searchEditorSerialization: text <-> configuration
extractSearchQuery(text) ==
    IF text = "t1" THEN "c1" ELSE IF text = "t2" THEN "c2" ELSE EmptyConfig
serializeSearchConfiguration(c) ==
    IF c = "c1" THEN "t1" ELSE IF c = "c2" THEN "t2" ELSE "t0"

Decorations == {"d1"}

None == 0           \* inputs.get(key) === undefined
Pending == -2       \* a promise not yet settled
Rejected == -1      \* a promise that rejected
Undefined == 0      \* a promise resolved to undefined

VARIABLES
    inputs,         \* const inputs = new Map<string, SearchEditorInput>()
    inp,            \* the SearchEditorInput instances, by creation order
    models,         \* uris for which modelService.getModel(uri) is defined
    workingCopies,  \* inputs whose adapter was given to registerWorkingCopy
    calls,          \* the save / saveAs calls suspended at an await
    ops,            \* number of operations started
    last            \* the operation that returned last, and what it did

vars == <<inputs, inp, models, workingCopies, calls, ops, last>>

Ids == 1..Len(inp)
Key(i) == toString(inp[i].resource)

\* ---------------------------------------------------------------- SearchEditorInput
isUntitled(i) == inp[i].resource.scheme = SearchEditorScheme
isDirty(i) == inp[i].dirty

\* get highlights(): (this._highlights ?? []).map(...)
highlights(i) == inp[i].hl

\* workingCopyAdapter.isDirty()
WorkingCopyIsDirty(i) == isDirty(i)

\* an adapter that reports every settled save as a success
WorkingCopySaveAlways(editor) == TRUE

\* workingCopyAdapter.save: input.save(0, options).then(editor => !!editor)
WorkingCopySave(editor) == editor # Undefined

\* ---------------------------------------------------------------- getOrMakeSearchEditorInput
\* the three shapes of existingData
ExistingData ==
    {[uri |-> u, config |-> c, text |-> NoText] :
        u \in Uris, c \in Configs \cup {NoConfig}}
    \cup {[uri |-> NoUri, config |-> NoConfig, text |-> t] :
        t \in Texts \cup {EmptyText}}
    \cup {[uri |-> NoUri, config |-> c, text |-> NoText] : c \in Configs}

\* a lookup that misses every key
RegistryGetMisses(reg, u) == None

\* inputs.get(uri.toString())
RegistryGet(reg, u) == reg[toString(u)]

\* existingData.config ?? (existingData.text ? extractSearchQuery(existingData.text) : {})
StartingConfig(data) ==
    IF data.config # NoConfig THEN data.config
    ELSE IF data.text # NoText /\ data.text # EmptyText
         THEN extractSearchQuery(data.text)
         ELSE EmptyConfig

\* new SearchEditorInput(uri, getModel, config); the constructor runs getModel
\* up to its first await
NewInput(u, data, mods) ==
    [resource |-> u,
     dirty |-> FALSE,
     query |-> StartingConfig(data),
     hl |-> {},
     disposed |-> FALSE,
     lastArg |-> FALSE,
     observed |-> FALSE,
     started |-> 0,
     fires |-> 0,
     pendingFire |-> 0,
     hlQueue |-> <<>>,
     text |-> data.text,
     config |-> data.config,
     loads |-> 1,
     model |-> IF u \in mods THEN "wrap" ELSE "backup",
     source |-> IF u \in mods THEN "existing" ELSE "none",
     lookups |-> 0,
     discards |-> 0,
     hadBackup |-> "unknown",
     searchConfig |-> IF u \in mods THEN StartingConfig(data) ELSE NoConfig,
     decorations |-> {},
     mdisposed |-> FALSE]

\* the file on disk preferred to the backup
ChooseContentsFileFirst(hasBackup, u, text, config) ==
    IF u.scheme # SearchEditorScheme THEN "file"
    ELSE IF hasBackup THEN "backup"
    ELSE IF text # NoText /\ text # EmptyText THEN "text"
    ELSE IF config # NoConfig THEN "config"
    ELSE "throw"

\* the contents chosen by getModel once the backup lookup has answered
ChooseContents(hasBackup, u, text, config) ==
    IF hasBackup THEN "backup"
    ELSE IF u.scheme # SearchEditorScheme THEN "file"
    ELSE IF text # NoText /\ text # EmptyText THEN "text"
    ELSE IF config # NoConfig THEN "config"
    ELSE "throw"

\* what an operation reports when it returns
Blank ==
    [kind |-> "none", inp |-> None, pc |-> "done", path |-> NoUri,
     result |-> Pending, why |-> "", adapter |-> "none",
     wrote |-> FALSE, written |-> FALSE, dialog |-> FALSE, logged |-> FALSE,
     touched |-> FALSE, made |-> FALSE, dirtyAfter |-> FALSE,
     disposedAtCheck |-> FALSE, reloaded |-> NoConfig, passed |-> NoConfig,
     dirty0 |-> FALSE, started0 |-> 0, quiet |-> TRUE,
     prev |-> None, now |-> None, kept |-> TRUE, targetAfter |-> NoConfig,
     hlPassed |-> {}, queued |-> FALSE, destroyed |-> FALSE]

Init ==
    /\ inputs = [k \in Keys |-> None]
    /\ inp = <<>>
    /\ models = {}
    /\ workingCopies = {}
    /\ calls = EmptyBag
    /\ ops = 0
    /\ last = Blank

\* getOrMakeSearchEditorInput(accessor, existingData), called from outside
GetOrMake(data, fresh) ==
    LET uri == IF data.uri # NoUri THEN data.uri ELSE fresh
        existing == RegistryGet(inputs, uri)
    IN  /\ existing # None \/ Len(inp) < MaxInputs
        /\ IF existing # None
           THEN /\ UNCHANGED <<inputs, inp, workingCopies>>
                /\ last' = [Blank EXCEPT !.kind = "get", !.path = uri,
                                 !.result = existing, !.prev = existing,
                                 !.now = RegistryGet(inputs', uri),
                                 !.kept = (inp'[existing] = inp[existing])]
           ELSE /\ inp' = Append(inp, NewInput(uri, data, models))
                /\ inputs' = [inputs EXCEPT ![toString(uri)] = Len(inp) + 1]
                /\ workingCopies' = workingCopies \cup {Len(inp) + 1}
                /\ last' = [Blank EXCEPT !.kind = "get", !.path = uri,
                                 !.result = Len(inp) + 1, !.made = TRUE,
                                 !.now = RegistryGet(inputs', uri)]
        /\ UNCHANGED <<models, calls, ops>>

\* getModel after `await backupService.resolve(uri)`
LoadBackup(i, hasBackup, c) ==
    LET me == inp[i]
        chosen == ChooseContents(hasBackup, me.resource, me.text, me.config)
        looked == [me EXCEPT !.lookups = @ + 1, !.discards = @ + 1,
                             !.hadBackup = IF hasBackup THEN "yes" ELSE "no"]
    IN  /\ me.model = "backup"
        /\ CASE chosen = "backup" ->
                  /\ inp' = [inp EXCEPT ![i] = [looked EXCEPT !.model = "resolved",
                                !.source = "backup", !.searchConfig = c]]
                  /\ models' = models \cup {me.resource}
             [] chosen = "file" ->
                  /\ inp' = [inp EXCEPT ![i] = [looked EXCEPT !.model = "read"]]
                  /\ UNCHANGED models
             [] chosen = "text" ->
                  /\ inp' = [inp EXCEPT ![i] = [looked EXCEPT !.model = "resolved",
                                !.source = "text",
                                !.searchConfig = extractSearchQuery(me.text)]]
                  /\ models' = models \cup {me.resource}
             [] chosen = "config" ->
                  /\ inp' = [inp EXCEPT ![i] = [looked EXCEPT !.model = "resolved",
                                !.source = "config",
                                !.searchConfig =
                                    extractSearchQuery(serializeSearchConfiguration(me.config))]]
                  /\ models' = models \cup {me.resource}
             [] OTHER ->
                  /\ inp' = [inp EXCEPT ![i] = [looked EXCEPT !.model = "rejected",
                                !.source = "throw"]]
                  /\ UNCHANGED models
        /\ UNCHANGED <<inputs, workingCopies, calls, ops, last>>

\* getModel after `await textFileService.read(uri)`
LoadRead(i, ok, c) ==
    /\ inp[i].model = "read"
    /\ IF ok
       THEN /\ inp' = [inp EXCEPT ![i].model = "resolved", ![i].source = "file",
                                  ![i].searchConfig = c]
            /\ models' = models \cup {inp[i].resource}
       ELSE /\ inp' = [inp EXCEPT ![i].model = "rejected"]
            /\ UNCHANGED models
    /\ UNCHANGED <<inputs, workingCopies, calls, ops, last>>

\* getModel when modelService.getModel(uri) was defined: the model wraps it
LoadWrap(i) ==
    /\ inp[i].model = "wrap"
    /\ inp' = [inp EXCEPT ![i].model = "resolved"]
    /\ UNCHANGED <<inputs, models, workingCopies, calls, ops, last>>

\* EditorInput.dispose(): the onDispose listeners run on the first dispose only
OnDisposeFires(me) == ~me.disposed

\* a dispose listener that leaves the registry alone
RegistryDeleteNothing(reg, u) == reg

\* input.onDispose(() => inputs.delete(uri.toString()))
RegistryDelete(reg, u) == [reg EXCEPT ![toString(u)] = None]

\* SearchEditorInput.dispose(): destroyModel(this.resource), then super.dispose()
\* fires onDispose and disposes the registered model
Dispose(i) ==
    LET me == inp[i]
    IN  /\ models' = models \ {me.resource}
        /\ inputs' = IF OnDisposeFires(me) THEN RegistryDelete(inputs, me.resource)
                     ELSE inputs
        /\ inp' = [j \in Ids |->
                     LET x == IF j = i THEN [inp[j] EXCEPT !.disposed = TRUE] ELSE inp[j]
                     IN  IF x.resource = me.resource /\ x.model = "resolved"
                         THEN [x EXCEPT !.mdisposed = TRUE]
                         ELSE x]
        /\ last' = [Blank EXCEPT !.kind = "dispose", !.inp = i, !.path = me.resource,
                         !.prev = RegistryGet(inputs, me.resource),
                         !.now = RegistryGet(inputs', me.resource),
                         !.destroyed = (me.resource \notin models')]
        /\ UNCHANGED <<workingCopies, calls, ops>>

\* ---------------------------------------------------------------- setDirty
\* the flag still holding its old value when the first event fires
DirtyAtCallStale(old, d) == old

\* `this.dirty = dirty` is the first statement of setDirty
DirtyAtCall(old, d) == d

\* setDirty(dirty) up to `await this.model`: assignment, first event, suspension
SetDirtyOn(x, d) ==
    [x EXCEPT !.dirty = DirtyAtCall(x.dirty, d),
              !.lastArg = d,
              !.started = @ + 1,
              !.fires = @ + 1,
              !.observed = DirtyAtCall(x.dirty, d),
              !.pendingFire = @ + 1]

\* input.setDirty(d), called from outside (the editor marks the input dirty)
SetDirty(i, d) ==
    /\ ops < MaxOps
    /\ ops' = ops + 1
    /\ inp' = [inp EXCEPT ![i] = SetDirtyOn(inp[i], d)]
    /\ UNCHANGED <<inputs, models, workingCopies, calls, last>>

\* setDirty after `await this.model`: the second event
SecondFire(i) ==
    /\ inp[i].pendingFire > 0
    /\ inp[i].model = "resolved"
    /\ inp' = [inp EXCEPT ![i].pendingFire = @ - 1, ![i].fires = @ + 1,
                          ![i].observed = inp[i].dirty]
    /\ UNCHANGED <<inputs, models, workingCopies, calls, ops, last>>

\* setHighlights after `await this.model`
ApplyHighlights(i) ==
    /\ inp[i].hlQueue # <<>>
    /\ inp[i].model = "resolved"
    /\ inp' = [inp EXCEPT ![i].hlQueue = Tail(@),
                          ![i].decorations = @ \cup Head(inp[i].hlQueue),
                          ![i].hl = Head(inp[i].hlQueue)]
    /\ UNCHANGED <<inputs, models, workingCopies, calls, ops, last>>

\* a search decorates the results model
Decorate(i, d) ==
    /\ ops < MaxOps
    /\ ops' = ops + 1
    /\ inp[i].model = "resolved"
    /\ ~inp[i].mdisposed
    /\ d \notin inp[i].decorations
    /\ inp' = [inp EXCEPT ![i].decorations = @ \cup {d}]
    /\ UNCHANGED <<inputs, models, workingCopies, calls, last>>

\* reloadModel(): query and highlights are read back from the model
ReloadOn(x) == [x EXCEPT !.query = x.searchConfig, !.hl = x.decorations]

\* ---------------------------------------------------------------- save / saveAs
NewCall(kind, i) ==
    [Blank EXCEPT !.kind = kind, !.inp = i,
                  !.pc = IF kind = "save" THEN "model" ELSE "reload",
                  !.dirty0 = inp[i].dirty, !.started0 = inp[i].started]

Suspended == BagToSet(calls)
Resume(c, d) == (calls (-) SetToBag({c})) (+) SetToBag({d})
Return(c) == calls (-) SetToBag({c})

\* the call returns: its promise settles, and with it the working copy's
Settle(c, result, why, after) ==
    [c EXCEPT !.pc = "done", !.result = result, !.why = why,
              !.dirtyAfter = after[c.inp].dirty,
              !.quiet = (after[c.inp].started
                            = c.started0 + (IF c.touched THEN 1 ELSE 0)),
              !.adapter = IF c.kind # "save" THEN "none"
                          ELSE IF result = Rejected THEN "rejected"
                          ELSE IF WorkingCopySave(result) THEN "true" ELSE "false"]

\* input.save(group, options), directly or through the working copy
SaveStart(i) ==
    /\ ops < MaxOps
    /\ ops' = ops + 1
    /\ calls' = calls (+) SetToBag({NewCall("save", i)})
    /\ UNCHANGED <<inputs, inp, models, workingCopies, last>>

\* input.saveAs(group, options)
SaveAsStart(i) ==
    /\ ops < MaxOps
    /\ ops' = ops + 1
    /\ calls' = calls (+) SetToBag({NewCall("saveAs", i)})
    /\ UNCHANGED <<inputs, inp, models, workingCopies, last>>

\* a save that does not look at the model's disposal
SaveNeverBailsOut(me) == FALSE

\* `if ((await this.model).isDisposed()) { return; }`
SaveBailsOut(me) == me.mdisposed

\* setDirty(false) reached whether or not the write resolved
SetDirtyWhateverWrite(ok) == TRUE

\* `await this.textFileService.write(...); this.setDirty(false);`
SetDirtyAfterWrite(ok) == ok

\* the new input opened without this input's query
SaveAsDataNoQuery(path, me) == [uri |-> path, config |-> NoConfig, text |-> NoText]

\* `{ uri: path, config: { ...this.query } }`
SaveAsData(path, me) == [uri |-> path, config |-> me.query, text |-> NoText]

\* `if (!isEqual(path, this.resource))`
SaveAsOpensOther(path, me) == ~isEqual(path, me.resource)

\* save after `await this.model`
SaveAfterModel(c) ==
    LET i == c.inp
        me == inp[i]
        seen == [c EXCEPT !.disposedAtCheck = me.mdisposed]
    IN  /\ c.pc = "model"
        /\ me.model \in {"resolved", "rejected"}
        /\ IF me.model = "rejected"
           THEN /\ inp' = inp
                /\ calls' = Return(c)
                /\ last' = Settle(c, Rejected, "model", inp')
           ELSE IF SaveBailsOut(me)
           THEN /\ inp' = inp
                /\ calls' = Return(c)
                /\ last' = Settle(seen, Undefined, "disposed", inp')
           ELSE IF isUntitled(i)
           THEN \* saveAs -> suggestFileName -> reloadModel -> pickFileToSave
                /\ inp' = [inp EXCEPT ![i] = ReloadOn(me)]
                /\ calls' = Resume(c, [seen EXCEPT !.pc = "dialog", !.dialog = TRUE,
                                                   !.reloaded = me.searchConfig])
                /\ last' = last
           ELSE \* createSnapshot and textFileService.write
                /\ inp' = inp
                /\ calls' = Resume(c, [seen EXCEPT !.pc = "write", !.wrote = TRUE])
                /\ last' = last
        /\ UNCHANGED <<inputs, models, workingCopies, ops>>

\* save after `await this.textFileService.write(...)`
WriteFinish(c, ok) ==
    LET i == c.inp
    IN  /\ c.pc = "write"
        /\ inp' = IF SetDirtyAfterWrite(ok)
                  THEN [inp EXCEPT ![i] = SetDirtyOn(inp[i], FALSE)]
                  ELSE inp
        /\ calls' = Return(c)
        /\ last' = IF ok
                   THEN Settle([c EXCEPT !.written = TRUE,
                                         !.touched = SetDirtyAfterWrite(ok)],
                               i, "saved", inp')
                   ELSE Settle([c EXCEPT !.touched = SetDirtyAfterWrite(ok)],
                               Rejected, "write", inp')
        /\ UNCHANGED <<inputs, models, workingCopies, ops>>

\* saveAs after `await this.suggestFileName()`: the model is reloaded and the
\* file dialog opens
SaveAsReload(c) ==
    LET i == c.inp
        me == inp[i]
    IN  /\ c.pc = "reload"
        /\ me.model \in {"resolved", "rejected"}
        /\ IF me.model = "rejected"
           THEN /\ inp' = inp
                /\ calls' = Return(c)
                /\ last' = Settle(c, Rejected, "model", inp')
           ELSE /\ inp' = [inp EXCEPT ![i] = ReloadOn(me)]
                /\ calls' = Resume(c, [c EXCEPT !.pc = "dialog", !.dialog = TRUE,
                                                !.reloaded = me.searchConfig])
                /\ last' = last
        /\ UNCHANGED <<inputs, models, workingCopies, ops>>

\* saveAs after `await this.fileDialogService.pickFileToSave(...)`
Dialog(c, path) ==
    /\ c.pc = "dialog"
    /\ IF path = NoUri
       THEN /\ calls' = Return(c)
            /\ last' = Settle(c, Undefined, "dismissed", inp)
       ELSE \* telemetryService.publicLog2, then textFileService.saveAs
            /\ calls' = Resume(c, [c EXCEPT !.pc = "saveAs", !.path = path,
                                            !.logged = TRUE])
            /\ last' = last
    /\ UNCHANGED <<inputs, inp, models, workingCopies, ops>>

\* what `await this.textFileService.saveAs(...)` yields: a truthy value, a
\* falsy one, or an exception
SaveAsOutcomes == {"saved", "failed", "rejected"}

\* saveAs after `await this.textFileService.saveAs(this.resource, path, options)`
SaveAsFinish(c, outcome) ==
    LET i == c.inp
        me == inp[i]
        clean == [inp EXCEPT ![i] = SetDirtyOn(me, FALSE)]
        existing == RegistryGet(inputs, c.path)
        target == IF existing # None THEN existing ELSE Len(inp) + 1
        data == SaveAsData(c.path, me)
    IN  /\ c.pc = "saveAs"
        /\ calls' = Return(c)
        /\ IF outcome = "rejected"
           THEN /\ last' = Settle(c, Rejected, "saveAs", inp)
                /\ UNCHANGED <<inputs, inp, workingCopies>>
           ELSE IF outcome = "failed"
           THEN /\ last' = Settle(c, Undefined, "failed", inp)
                /\ UNCHANGED <<inputs, inp, workingCopies>>
           ELSE IF SaveAsOpensOther(c.path, me)
           THEN /\ existing # None \/ Len(inp) < MaxInputs
                /\ LET got == IF existing # None THEN clean
                              ELSE Append(clean, NewInput(c.path, data, models))
                   IN  inp' = [got EXCEPT ![target].hlQueue =
                                    Append(@, highlights(i))]
                /\ inputs' = IF existing # None THEN inputs
                             ELSE [inputs EXCEPT ![toString(c.path)] = target]
                /\ workingCopies' = IF existing # None THEN workingCopies
                                    ELSE workingCopies \cup {target}
                /\ last' = Settle([c EXCEPT !.touched = TRUE,
                                     !.made = (existing = None),
                                     !.prev = existing,
                                     !.now = RegistryGet(inputs', c.path),
                                     !.queued = (inp'[target].hlQueue # <<>>
                                        /\ inp'[target].hlQueue[Len(inp'[target].hlQueue)]
                                           = highlights(i)),
                                     !.kept = (existing = None
                                        \/ [inp'[target] EXCEPT !.hlQueue = <<>>]
                                           = [inp[target] EXCEPT !.hlQueue = <<>>]),
                                     !.passed = data.config,
                                     !.targetAfter = inp'[target].query,
                                     !.hlPassed = highlights(i)],
                                  target, "saved", inp')
           ELSE /\ inp' = clean
                /\ last' = Settle([c EXCEPT !.touched = TRUE], i, "saved", inp')
                /\ UNCHANGED <<inputs, workingCopies>>
        /\ UNCHANGED <<models, ops>>

\* ---------------------------------------------------------------- specification
\* callers that open an editor for a configuration
OpenData == {d \in ExistingData : d.config # NoConfig}

Next ==
    \/ \E data \in OpenData, fresh \in UntitledUris : GetOrMake(data, fresh)
    \/ \E i \in Ids, b \in BOOLEAN, c \in StoredConfigs : LoadBackup(i, b, c)
    \/ \E i \in Ids, ok \in BOOLEAN, c \in StoredConfigs : LoadRead(i, ok, c)
    \/ \E i \in Ids : LoadWrap(i)
    \/ \E i \in Ids : Dispose(i)
    \/ \E i \in Ids, d \in BOOLEAN : SetDirty(i, d)
    \/ \E i \in Ids : SecondFire(i)
    \/ \E i \in Ids : ApplyHighlights(i)
    \/ \E i \in Ids, d \in Decorations : Decorate(i, d)
    \/ \E i \in Ids : SaveStart(i)
    \/ \E i \in Ids : SaveAsStart(i)
    \/ \E c \in Suspended : SaveAfterModel(c)
    \/ \E c \in Suspended, ok \in BOOLEAN : WriteFinish(c, ok)
    \/ \E c \in Suspended : SaveAsReload(c)
    \/ \E c \in Suspended, path \in FileUris \cup {NoUri} : Dialog(c, path)
    \/ \E c \in Suspended, outcome \in SaveAsOutcomes : SaveAsFinish(c, outcome)

Spec == Init /\ [][Next]_vars

\* the registry and getModel alone, over every shape of existingData
NextLoad ==
    \/ \E data \in ExistingData, fresh \in UntitledUris : GetOrMake(data, fresh)
    \/ \E i \in Ids, b \in BOOLEAN, c \in StoredConfigs : LoadBackup(i, b, c)
    \/ \E i \in Ids, ok \in BOOLEAN, c \in StoredConfigs : LoadRead(i, ok, c)
    \/ \E i \in Ids : LoadWrap(i)
    \/ \E i \in Ids : Dispose(i)

SpecLoad == Init /\ [][NextLoad]_vars

\* ---------------------------------------------------------------- claims
IsInput(r) == r \in Ids
Returned(kinds) == last.kind \in kinds /\ last.pc = "done"

\* C1: the registry deduplicates: undisposed inputs have pairwise distinct
\* uri.toString(); a getOrMakeSearchEditorInput call for a registered uri
\* returns the registered instance itself and leaves it as it was (its
\* config/text arguments are ignored); whatever a call returns is undisposed
\* and is the registry's entry for the uri.
C1_RegistryDeduplicates ==
    /\ \A i, j \in Ids :
          (~inp[i].disposed /\ ~inp[j].disposed /\ Key(i) = Key(j)) => i = j
    /\ last.kind = "get" =>
          /\ last.now = last.result
          /\ IsInput(last.result)
          /\ ~inp[last.result].disposed
          /\ Key(last.result) = toString(last.path)
          /\ last.prev # None => (last.result = last.prev /\ last.kept /\ ~last.made)

C1_Witness ==
    /\ last.kind = "get"
    /\ last.prev # None
    /\ last.result = last.prev
    /\ Len(inp) = MaxInputs

\* C2: dispose asks the model service to destroy the model of the uri and
\* takes the input out of the registry, so the registry only ever holds
\* undisposed inputs under their own uri, and a getOrMakeSearchEditorInput
\* call for the uri of a disposed input creates and registers a new input.
C2_DisposeUnregisters ==
    /\ \A k \in Keys :
          inputs[k] # None =>
              (IsInput(inputs[k]) /\ ~inp[inputs[k]].disposed /\ Key(inputs[k]) = k)
    /\ last.kind = "dispose" =>
          /\ last.destroyed
          /\ last.now # last.inp
          /\ last.prev = last.inp => last.now = None
    /\ last.kind = "get" =>
          \A i \in Ids :
              (inp[i].disposed /\ Key(i) = toString(last.path)) =>
                  (last.result # i /\ last.now = last.result)

C2_Witness ==
    /\ last.kind = "get"
    /\ last.made
    /\ \E i \in Ids : inp[i].disposed /\ Key(i) = toString(last.path)
                        /\ last.result # i /\ inputs[Key(i)] = last.result

\* C8: getModel runs once per input; a text model already in the model
\* service is wrapped without any backup lookup or discard; otherwise the
\* backup is resolved and discarded once, and the contents are the backup if
\* there was one, else the file if the uri is not untitled, else the given
\* non-empty text, else the serialized given config, else loading fails.
ExpectedSource(me) ==
    IF me.hadBackup = "yes" THEN "backup"
    ELSE IF me.resource.scheme # SearchEditorScheme THEN "file"
    ELSE IF me.text \notin {NoText, EmptyText} THEN "text"
    ELSE IF me.config # NoConfig THEN "config"
    ELSE "throw"

C8_ContentsByPriority ==
    \A i \in Ids :
        LET me == inp[i]
        IN  /\ me.loads = 1
            /\ me.lookups <= 1 /\ me.discards = me.lookups
            /\ me.source = "existing" =>
                  (me.lookups = 0 /\ me.hadBackup = "unknown"
                   /\ me.model \in {"wrap", "resolved"})
            /\ me.model \in {"read", "resolved", "rejected"} /\ me.source # "existing" =>
                  /\ me.lookups = 1
                  /\ me.hadBackup # "unknown"
                  /\ me.model = "resolved" => me.source = ExpectedSource(me)
                  /\ me.model = "read" => ExpectedSource(me) = "file"
                  /\ me.model = "rejected" => ExpectedSource(me) \in {"file", "throw"}
                  /\ ExpectedSource(me) = "throw" => me.model = "rejected"

C8_Witness ==
    \E i, j \in Ids :
        /\ inp[i].source = "backup" /\ inp[i].resource.scheme = FileScheme
        /\ inp[j].source = "config" /\ inp[j].discards = 1

\* C3: every input's working copy is registered at construction and reports
\* the input's dirty flag; its save resolves to true exactly when the input's
\* save resolved to an editor input, to false when it resolved to undefined,
\* and a save that resolved to true has called setDirty(false), leaving the
\* flag false when it returned.
C3_WorkingCopyMirrorsInput ==
    /\ \A i \in Ids : i \in workingCopies /\ (WorkingCopyIsDirty(i) <=> inp[i].dirty)
    /\ Returned({"save"}) =>
          /\ last.adapter = "true" <=> IsInput(last.result)
          /\ last.adapter = "false" <=> last.result = Undefined
          /\ last.adapter = "rejected" <=> last.result = Rejected
          /\ last.adapter = "true" => (last.touched /\ ~last.dirtyAfter)

C3_Witness ==
    /\ Returned({"save"})
    /\ last.adapter = "true"
    /\ last.dirty0

\* C4: a save of a non-untitled input with a live model calls the write
\* first; setDirty(false) is called only once the write has completed, and
\* the save then returns the input itself with the flag false; if the write
\* rejects the save rejects without having called setDirty, so the flag is
\* what it was before the call unless another call set it meanwhile.
C4_SaveWritesThenCleans ==
    /\ \A c \in Suspended :
          c.pc = "write" => (c.wrote /\ ~c.touched /\ ~isUntitled(c.inp))
    /\ (Returned({"save"}) /\ last.wrote) =>
          /\ ~isUntitled(last.inp) /\ ~last.disposedAtCheck
          /\ last.why \in {"saved", "write"}
          /\ last.why = "saved" =>
                /\ last.written /\ last.touched
                /\ ~last.dirtyAfter
                /\ last.result = last.inp
          /\ last.why = "write" =>
                /\ last.result = Rejected
                /\ ~last.written /\ ~last.touched
                /\ last.quiet => (last.dirtyAfter <=> last.dirty0)
    /\ (Returned({"save"}) /\ ~isUntitled(last.inp) /\ ~last.disposedAtCheck
            /\ last.why # "model") => last.wrote

C4_Witness ==
    /\ Returned({"save"})
    /\ last.why = "write"
    /\ last.dirty0 /\ last.dirtyAfter /\ last.quiet

\* C5: a save or saveAs that resolves to undefined has not called setDirty
\* (no flag change, no dirty event) and has added no input to the registry;
\* a save that found its model disposed resolves to undefined without a
\* write or a file dialog, and a dismissed dialog logs no telemetry.
C5_UndefinedLeavesNoTrace ==
    /\ \A c \in Suspended : ~c.disposedAtCheck /\ ~c.touched /\ ~c.made
    /\ (Returned({"save", "saveAs"}) /\ last.result = Undefined) =>
          /\ last.why \in {"disposed", "dismissed", "failed"}
          /\ ~last.touched /\ ~last.made
          /\ last.quiet => (last.dirtyAfter <=> last.dirty0)
          /\ last.why = "disposed" => (~last.wrote /\ ~last.dialog /\ ~last.logged)
          /\ last.why = "dismissed" => ~last.logged
    /\ (Returned({"save"}) /\ last.disposedAtCheck) =>
          (last.result = Undefined /\ last.why = "disposed")

C5_Witness ==
    /\ Returned({"save"})
    /\ last.why = "disposed"
    /\ last.dirty0 /\ last.dirtyAfter

\* C6 as claimed: a successful saveAs to another path returns the registry's
\* input for that path holding a copy of this input's reloaded query.
C6_TargetHoldsQuery ==
    (Returned({"save", "saveAs"}) /\ last.why = "saved" /\ last.dialog
        /\ last.result # last.inp) => last.targetAfter = last.reloaded

\* C6 amended: a successful saveAs (or save of an untitled input with a live
\* model) calls setDirty(false) and returns the input itself if the picked
\* path equals its resource, otherwise the registry's input for the path: a
\* new input whose query is a copy of this input's reloaded query if none
\* was registered, the registered one with its query untouched if there was
\* one; either way setHighlights is called on it with this input's highlights.
C6_SaveAsResult ==
    (Returned({"save", "saveAs"}) /\ last.why = "saved" /\ last.dialog) =>
        /\ last.logged /\ last.touched /\ ~last.dirtyAfter
        /\ last.kind = "save" => (isUntitled(last.inp) /\ ~last.disposedAtCheck)
        /\ isEqual(last.path, inp[last.inp].resource) =>
              (last.result = last.inp /\ ~last.made)
        /\ ~isEqual(last.path, inp[last.inp].resource) =>
              /\ last.result # last.inp
              /\ last.result = last.now
              /\ Key(last.result) = toString(last.path)
              /\ last.queued
              /\ last.made <=> last.prev = None
              /\ last.made => (last.targetAfter = last.reloaded
                                /\ last.passed = last.reloaded)
              /\ ~last.made => (last.result = last.prev /\ last.kept)

C6_Witness ==
    /\ Returned({"save", "saveAs"})
    /\ last.why = "saved"
    /\ ~last.made
    /\ last.result # last.inp
    /\ last.targetAfter # last.reloaded
    /\ last.hlPassed # {}

\* C7: setDirty assigns the flag before its first event and fires a second
\* event only once the model promise has resolved; the flag and what a
\* listener reads on any event are the argument of the most recently
\* started call, whatever deferred events of earlier calls are still due.
C7_LatestSetDirtyWins ==
    \A i \in Ids :
        LET me == inp[i]
        IN  /\ me.started > 0 =>
                  ((isDirty(i) <=> me.lastArg) /\ (me.observed <=> me.lastArg))
            /\ me.started = 0 => ~isDirty(i)
            /\ me.fires + me.pendingFire = 2 * me.started
            /\ me.pendingFire <= me.started
            /\ me.fires > me.started => me.model = "resolved"

C7_Witness ==
    \E i \in Ids :
        /\ Returned({"save"}) /\ last.inp = i /\ last.touched
        /\ inp[i].started = 2
        /\ inp[i].fires = 3
        /\ isDirty(i) /\ inp[i].observed
====
